---- MODULE Spec2Model ----
(***************************************************************************)
(* A model of app.py: the stock rank query form.                           *)
(*                                                                         *)
(* Text is a sequence of characters, each character a string.  Characters  *)
(* outside ASCII are written by name: "FW1" is the fullwidth digit one     *)
(* (U+FF11, category Nd), "SUP2" is superscript two (U+00B2, category No)  *)
(* and "LF" is the line feed.                                              *)
(***************************************************************************)
EXTENDS Integers, Sequences, FiniteSets, TLC

VARIABLES
    pc,            \* a function called on its own: before or after the call
    df,            \* query_stock_rank: the table argument
    stock_code,    \* query_stock_rank: the code argument (text)
    n_days,        \* query_stock_rank: the day count argument (integer)
    outcome,       \* query_stock_rank: what the call ended in
    header,        \* process_header: the argument
    header_out,    \* process_header: the returned list
    value,         \* process_cell: the argument, as str(value)
    cell_out,      \* process_cell: the returned text
    source_ok,     \* whether the file at FILE_PATH can be read
    disk,          \* whether the derived file can be written: "ok", "readonly", "full"
    file,          \* the derived file: whether it exists, and its lines
    rpc,           \* per request: where index() is
    form,          \* per request: the method and the form fields
    path,          \* per request: processed_file_path
    loaded,        \* per request: the df load_data returned
    trace,         \* per request: the functions index() has called, in order
    response       \* per request: what index() answered

calls == <<pc, df, stock_code, n_days, outcome, header, header_out, value, cell_out>>

server == <<source_ok, disk, file, rpc, form, path, loaded, trace, response>>

vars == <<calls, server>>

(***************************************************************************)
(* Python's str and re, as far as app.py uses them.                        *)
(***************************************************************************)

AsciiDigits == {"0", "1", "2", "3", "4", "5", "6", "7", "8", "9"}

\* Characters of Unicode category Nd: what \d matches and int() reads.
DecimalDigits == AsciiDigits \cup {"FW1"}

\* Characters str.isdigit() accepts: Nd and the digits of category No.
IsDigitChars == DecimalDigits \cup {"SUP2"}

Whitespace == {" ", "LF"}

DigitValue(c) ==
    CASE c = "0" -> 0 [] c = "1" -> 1 [] c = "2" -> 2 [] c = "3" -> 3
      [] c = "4" -> 4 [] c = "5" -> 5 [] c = "6" -> 6 [] c = "7" -> 7
      [] c = "8" -> 8 [] c = "9" -> 9 [] c = "FW1" -> 1

AllIn(s, S) == \A i \in 1..Len(s) : s[i] \in S

\* s.replace(old, ""): the occurrences of old found left to right, not overlapping.
RECURSIVE Replace(_, _)
Replace(s, old) ==
    IF Len(s) < Len(old) THEN s
    ELSE IF SubSeq(s, 1, Len(old)) = old
         THEN Replace(SubSeq(s, Len(old) + 1, Len(s)), old)
         ELSE <<s[1]>> \o Replace(Tail(s), old)

RECURSIVE LStrip(_)
LStrip(s) == IF s # <<>> /\ s[1] \in Whitespace THEN LStrip(Tail(s)) ELSE s

RECURSIVE RStrip(_)
RStrip(s) ==
    IF s # <<>> /\ s[Len(s)] \in Whitespace THEN RStrip(SubSeq(s, 1, Len(s) - 1)) ELSE s

\* s.strip()
Strip(s) == RStrip(LStrip(s))

Zeros(n) == [i \in 1..n |-> "0"]

\* s.zfill(width): zeros go after a leading sign.
ZFill(s, width) ==
    IF Len(s) >= width THEN s
    ELSE IF s # <<>> /\ s[1] \in {"+", "-"}
         THEN <<s[1]>> \o Zeros(width - Len(s)) \o Tail(s)
         ELSE Zeros(width - Len(s)) \o s

\* s.isdigit()
IsDigit(s) == s # <<>> /\ AllIn(s, IsDigitChars)

\* re.match(r'^\d{lo,hi}$', s): $ also matches before one trailing line feed.
MatchDigits(s, lo, hi) ==
    LET body == IF s # <<>> /\ s[Len(s)] = "LF" THEN SubSeq(s, 1, Len(s) - 1) ELSE s
    IN  /\ Len(body) >= lo
        /\ Len(body) <= hi
        /\ AllIn(body, DecimalDigits)

\* The digits of an int() literal after the sign: digits, single underscores between them.
IntBody(t) ==
    /\ t # <<>>
    /\ AllIn(t, DecimalDigits \cup {"_"})
    /\ t[1] # "_"
    /\ t[Len(t)] # "_"
    /\ \A i \in 1..(Len(t) - 1) : ~(t[i] = "_" /\ t[i + 1] = "_")

Unsigned(s) ==
    LET t == Strip(s)
    IN  IF t # <<>> /\ t[1] \in {"+", "-"} THEN Tail(t) ELSE t

\* Whether int(s) returns; it raises ValueError otherwise.
IntParses(s) == IntBody(Unsigned(s))

RECURSIVE DigitsValue(_, _)
DigitsValue(t, acc) ==
    IF t = <<>> THEN acc
    ELSE IF t[1] = "_" THEN DigitsValue(Tail(t), acc)
         ELSE DigitsValue(Tail(t), 10 * acc + DigitValue(t[1]))

\* int(s), for an s that parses.
IntValue(s) ==
    LET t == Strip(s)
        m == DigitsValue(Unsigned(s), 0)
    IN  IF t # <<>> /\ t[1] = "-" THEN 0 - m ELSE m

(***************************************************************************)
(* The normalizer: process_header and process_cell.                        *)
(***************************************************************************)

TimeSuffix == <<"0", "0", ":", "0", "0", ":", "0", "0">>

CsvSuffix == <<".", "c", "s", "v">>

ShSuffix == <<".", "S", "H">>

SzSuffix == <<".", "S", "Z">>

MinCellDigits == 1

MaxCellDigits == 6

ZFillWidth == 6

process_header_no_strip(hdr) == [i \in 1..Len(hdr) |-> Replace(hdr[i], TimeSuffix)]

process_header(hdr) == [i \in 1..Len(hdr) |-> Strip(Replace(hdr[i], TimeSuffix))]

\* The text left once the three suffixes are removed, one after the other.
StripSuffixes(v) == Replace(Replace(Replace(v, CsvSuffix), ShSuffix), SzSuffix)

process_cell_pads_five(v) ==
    LET t == StripSuffixes(v)
    IN  IF MatchDigits(t, MinCellDigits, MaxCellDigits) THEN ZFill(t, ZFillWidth - 1) ELSE t

process_cell(v) ==
    LET t == StripSuffixes(v)
    IN  IF MatchDigits(t, MinCellDigits, MaxCellDigits) THEN ZFill(t, ZFillWidth) ELSE t

(***************************************************************************)
(* The table (a pandas DataFrame): columns is the sequence of labels, rows *)
(* the sequence of rows, each a sequence of values, one per column.  A     *)
(* value is a natural number or NaN, which equals nothing, itself          *)
(* included, and sorts last.                                               *)
(***************************************************************************)

NaN == -1

new_predict == <<"n", "e", "w", "_", "p", "r", "e", "d", "i", "c", "t">>

\* a == b on two cells
Eq(a, b) == a # NaN /\ b # NaN /\ a = b

\* The position of the first column labelled label, 0 when there is none.
ColumnIndex(columns, label) ==
    LET hits == {j \in 1..Len(columns) : columns[j] = label}
    IN  IF hits = {} THEN 0 ELSE CHOOSE j \in hits : \A k \in hits : j <= k

\* df[label]
Column(d, label) ==
    LET j == ColumnIndex(d.columns, label)
    IN  [i \in 1..Len(d.rows) |-> d.rows[i][j]]

\* Whether a goes before b in sort_values(ascending=False): NaN goes last.
Before(a, b) == a # NaN /\ (b = NaN \/ a > b)

RECURSIVE InsertDesc(_, _)
InsertDesc(x, s) ==
    IF s = <<>> THEN <<x>>
    ELSE IF Before(x, s[1]) THEN <<x>> \o s
         ELSE <<s[1]>> \o InsertDesc(x, Tail(s))

\* series.sort_values(ascending=False).reset_index(drop=True)
RECURSIVE SortDesc(_)
SortDesc(s) == IF s = <<>> THEN <<>> ELSE InsertDesc(s[1], SortDesc(Tail(s)))

\* A slice bound i of a sequence of length n, as Python clamps it.
SliceBound(i, n) ==
    IF i < 0 THEN (IF i + n < 0 THEN 0 ELSE i + n)
    ELSE IF i > n THEN n ELSE i

\* s[start:stop]
PySlice(s, start, stop) ==
    SubSeq(s, SliceBound(start, Len(s)) + 1, SliceBound(stop, Len(s)))

\* ranks[column] = rank on a dict kept in insertion order
DictSet(ranks, column, rank) ==
    IF \E i \in 1..Len(ranks) : ranks[i].column = column
    THEN [i \in 1..Len(ranks) |->
            IF ranks[i].column = column THEN [column |-> column, rank |-> rank]
            ELSE ranks[i]]
    ELSE Append(ranks, [column |-> column, rank |-> rank])

(***************************************************************************)
(* query_stock_rank.  What a call ends in: exc is the exception raised     *)
(* ("None" when it returns); for a return, (result, error) is the pair,    *)
(* result being None (result_is_none) or the ranks, error being "None" or  *)
(* the message, max_days the number the message carries.                   *)
(***************************************************************************)

NotCalled ==
    [exc |-> "NotCalled", result_is_none |-> TRUE, ranks |-> <<>>,
     error |-> "None", max_days |-> 0]

Raises(e) ==
    [exc |-> e, result_is_none |-> TRUE, ranks |-> <<>>, error |-> "None", max_days |-> 0]

ReturnsError(msg, m) ==
    [exc |-> "None", result_is_none |-> TRUE, ranks |-> <<>>, error |-> msg, max_days |-> m]

ReturnsRanks(ranks) ==
    [exc |-> "None", result_is_none |-> FALSE, ranks |-> ranks, error |-> "None",
     max_days |-> 0]

\* The positions of sorted_values (from 0) holding target.
Hits(sorted_values, target) ==
    {p \in 0..(Len(sorted_values) - 1) : Eq(sorted_values[p + 1], target)}

FirstRank_zero_based(sorted_values, target) ==
    LET hits == Hits(sorted_values, target)
    IN  CHOOSE p \in hits : \A q \in hits : p <= q

\* sorted_values[sorted_values == target].index[0] + 1
FirstRank(sorted_values, target) ==
    LET hits == Hits(sorted_values, target)
    IN  (CHOOSE p \in hits : \A q \in hits : p <= q) + 1

\* The for loop over recent_columns.
RECURSIVE RankLoop(_, _, _, _)
RankLoop(d, stock_row, columns, ranks) ==
    IF columns = <<>> THEN ReturnsRanks(ranks)
    ELSE LET column == columns[1]
             sorted_values == SortDesc(Column(d, column))
             target == stock_row[ColumnIndex(d.columns, column)]
         IN  IF Hits(sorted_values, target) = {} THEN Raises("IndexError")
             ELSE RankLoop(d, stock_row, Tail(columns),
                           DictSet(ranks, column, FirstRank(sorted_values, target)))

max_days_counts_id(d) == Len(d.columns)

\* max_days = len(df.columns) - 1
max_days_of(d) == Len(d.columns) - 1

invalid_code_uncaught == Raises("ValueError")

\* except ValueError: return None, "股票代码必须是六位数字"
invalid_code == ReturnsError("InvalidCode", 0)

query_stock_rank(d, code, n) ==
    IF ~IntParses(code) THEN invalid_code
    ELSE IF ColumnIndex(d.columns, new_predict) = 0 THEN Raises("KeyError")
    ELSE LET ids == Column(d, new_predict)
             found == {i \in 1..Len(d.rows) : Eq(ids[i], IntValue(code))}
         IN  IF found = {} THEN ReturnsError("NotFound", 0)
             ELSE IF n > max_days_of(d) THEN ReturnsError("ExceedsMax", max_days_of(d))
             ELSE RankLoop(d, d.rows[CHOOSE i \in found : \A k \in found : i <= k],
                           PySlice(d.columns, (0 - n) - 1, -1), <<>>)

(***************************************************************************)
(* The server: index() on each request, over the one derived file.         *)
(***************************************************************************)

Requests == {1, 2}

\* The texts of up to maxlen characters of alphabet.
Texts(alphabet, maxlen) == UNION {[1..k -> alphabet] : k \in 0..maxlen}

NoTable == [columns |-> <<>>, rows |-> <<>>]

\* max_days=None in a response
NoMaxDays == -1

CodeLen == 6

NoFile == [exists |-> FALSE, lines |-> <<>>]

NoForm == [method |-> "none", stock_code |-> <<>>, n_days |-> <<>>]

NoResponse == [kind |-> "none", error |-> "None", max_days |-> NoMaxDays, ranks |-> <<>>]

\* No request at all: the state of the server while a function is called on its own.
NoServer ==
    /\ source_ok = TRUE /\ disk = "ok" /\ file = NoFile
    /\ rpc = [r \in Requests |-> "none"]
    /\ form = [r \in Requests |-> NoForm]
    /\ path = [r \in Requests |-> "unset"]
    /\ loaded = [r \in Requests |-> NoTable]
    /\ trace = [r \in Requests |-> <<>>]
    /\ response = [r \in Requests |-> NoResponse]

\* The table at FILE_PATH as pd.read_csv returns it, each cell as str() gives it.
SourceTable ==
    [columns |-> << <<"d", "1", " ">> \o TimeSuffix, <<"d", "2", " ">> \o TimeSuffix,
                    new_predict >>,
     rows |-> << << <<"1">>, <<"0">>, <<"1">> \o ShSuffix >>,
                 << <<"0">>, <<"1">>, <<"2">> \o SzSuffix >> >>]

\* The lines df.to_csv writes: the processed header, then each row, cell by cell.
ProcessedLines ==
    <<process_header(SourceTable.columns)>> \o
    [i \in 1..Len(SourceTable.rows) |->
        [j \in 1..Len(SourceTable.rows[i]) |-> process_cell(SourceTable.rows[i][j])]]

\* A cell as pd.read_csv reads it: an empty cell or "nan" is NaN, digits are a number.
ReadCell(t) ==
    IF t = <<>> \/ t = <<"n", "a", "n">> THEN NaN ELSE DigitsValue(t, 0)

\* pd.read_csv on the lines of a file that holds a header line.
ReadLines(lines) ==
    [columns |-> lines[1],
     rows |-> [i \in 1..(Len(lines) - 1) |->
                  [j \in 1..Len(lines[i + 1]) |-> ReadCell(lines[i + 1][j])]]]

path_never_missing(p) == FALSE

\* not processed_file_path
path_missing(p) == p = "None"

\* stock_code.isdigit() and len(stock_code) == 6
code_check(code) == IsDigit(code) /\ Len(code) = CodeLen

Respond(r, kind, error, m, ranks) ==
    /\ response' = [response EXCEPT ![r] =
                       [kind |-> kind, error |-> error, max_days |-> m, ranks |-> ranks]]
    /\ rpc' = [rpc EXCEPT ![r] = "done"]

Called(r, f) == trace' = [trace EXCEPT ![r] = Append(@, f)]

\* index() up to the check of the stock code.
Validate(r) ==
    /\ rpc[r] = "received"
    /\ IF form[r].method = "GET"
       THEN Respond(r, "index_page", "None", NoMaxDays, <<>>)
       ELSE IF ~IntParses(form[r].n_days)
            THEN Respond(r, "exception", "ValueError", NoMaxDays, <<>>)
            ELSE IF ~code_check(form[r].stock_code)
                 THEN Respond(r, "error_page", "InvalidCode", NoMaxDays, <<>>)
                 ELSE /\ rpc' = [rpc EXCEPT ![r] = "process_table"]
                      /\ UNCHANGED response
    /\ UNCHANGED <<source_ok, disk, file, form, path, loaded, trace, calls>>

\* process_table: pd.read_csv(FILE_PATH) and the processing of the table.
ReadSource(r) ==
    /\ rpc[r] = "process_table"
    /\ Called(r, "process_table")
    /\ IF source_ok
       THEN /\ rpc' = [rpc EXCEPT ![r] = "to_csv_open"]
            /\ UNCHANGED path
       ELSE /\ rpc' = [rpc EXCEPT ![r] = "check_path"]
            /\ path' = [path EXCEPT ![r] = "None"]
    /\ UNCHANGED <<source_ok, disk, file, form, loaded, response, calls>>

\* process_table: df.to_csv opens the derived file, which empties it.
OpenOutput(r) ==
    /\ rpc[r] = "to_csv_open"
    /\ IF disk = "readonly"
       THEN /\ rpc' = [rpc EXCEPT ![r] = "check_path"]
            /\ path' = [path EXCEPT ![r] = "None"]
            /\ UNCHANGED file
       ELSE /\ rpc' = [rpc EXCEPT ![r] = "to_csv_write"]
            /\ file' = [exists |-> TRUE, lines |-> <<>>]
            /\ UNCHANGED path
    /\ UNCHANGED <<source_ok, disk, form, loaded, trace, response, calls>>

\* process_table: df.to_csv writes the lines and closes the file; the return.
WriteOutput(r) ==
    /\ rpc[r] = "to_csv_write"
    /\ IF disk = "full"
       THEN /\ file' = [exists |-> TRUE, lines |-> SubSeq(ProcessedLines, 1, 1)]
            /\ path' = [path EXCEPT ![r] = "None"]
       ELSE /\ file' = [exists |-> TRUE, lines |-> ProcessedLines]
            /\ path' = [path EXCEPT ![r] = "processed"]
    /\ rpc' = [rpc EXCEPT ![r] = "check_path"]
    /\ UNCHANGED <<source_ok, disk, form, loaded, trace, response, calls>>

\* if not processed_file_path: return the failure message
CheckPath(r) ==
    /\ rpc[r] = "check_path"
    /\ IF path_missing(path[r])
       THEN Respond(r, "failure_text", "None", NoMaxDays, <<>>)
       ELSE /\ rpc' = [rpc EXCEPT ![r] = "load_data"]
            /\ UNCHANGED response
    /\ UNCHANGED <<source_ok, disk, file, form, path, loaded, trace, calls>>

\* load_data: pd.read_csv of the derived file as it is at that moment.
LoadData(r) ==
    /\ rpc[r] = "load_data"
    /\ Called(r, "load_data")
    /\ IF ~file.exists
       THEN Respond(r, "exception", "FileNotFoundError", NoMaxDays, <<>>) /\ UNCHANGED loaded
       ELSE IF file.lines = <<>>
            THEN Respond(r, "exception", "EmptyDataError", NoMaxDays, <<>>) /\ UNCHANGED loaded
            ELSE /\ loaded' = [loaded EXCEPT ![r] = ReadLines(file.lines)]
                 /\ rpc' = [rpc EXCEPT ![r] = "query"]
                 /\ UNCHANGED response
    /\ UNCHANGED <<source_ok, disk, file, form, path, calls>>

\* query_stock_rank and the check of its error message.
QueryRank(r) ==
    /\ rpc[r] = "query"
    /\ Called(r, "query_stock_rank")
    /\ LET got == query_stock_rank(loaded[r], form[r].stock_code, IntValue(form[r].n_days))
       IN  IF got.exc # "None"
           THEN Respond(r, "exception", got.exc, NoMaxDays, <<>>)
           ELSE IF got.error # "None"
                THEN Respond(r, "error_page", got.error, Len(loaded[r].columns) - 1, <<>>)
                ELSE /\ response' = [response EXCEPT ![r].ranks = got.ranks]
                     /\ rpc' = [rpc EXCEPT ![r] = "render"]
    /\ UNCHANGED <<source_ok, disk, file, form, path, loaded, calls>>

\* plot_rank_trend, generate_rank_text and the result page.
Render(r) ==
    /\ rpc[r] = "render"
    /\ trace' = [trace EXCEPT ![r] = @ \o <<"plot_rank_trend", "generate_rank_text">>]
    /\ Respond(r, "result_page", "None", NoMaxDays, response[r].ranks)
    /\ UNCHANGED <<source_ok, disk, file, form, path, loaded, calls>>

Step(r) ==
    \/ Validate(r)
    \/ ReadSource(r)
    \/ OpenOutput(r)
    \/ WriteOutput(r)
    \/ CheckPath(r)
    \/ LoadData(r)
    \/ QueryRank(r)
    \/ Render(r)

Next == \E r \in Requests : Step(r)

NoCalls ==
    /\ pc = "server"
    /\ df = NoTable /\ stock_code = <<>> /\ n_days = 0 /\ outcome = NotCalled
    /\ header = <<>> /\ header_out = <<>> /\ value = <<>> /\ cell_out = <<>>

\* The stock codes of the forms: short texts, and the same after zeros to six characters.
FormAlphabet == {"1", "2", "3", "a", "-", "SUP2", "FW1"}

FormCodes ==
    LET tails == Texts(FormAlphabet, 2)
    IN  tails \cup {Zeros(CodeLen - Len(t)) \o t : t \in tails}

FormDays == {<<"1">>, <<"2">>, <<"3">>, <<"-", "1">>, <<"a">>, <<>>}

Forms ==
    {[method |-> "GET", stock_code |-> <<>>, n_days |-> <<>>]} \cup
    {[method |-> "POST", stock_code |-> c, n_days |-> n] : c \in FormCodes, n \in FormDays}

\* What an earlier run may have left of the derived file.
LeftFiles ==
    {NoFile, [exists |-> TRUE, lines |-> <<>>],
     [exists |-> TRUE, lines |-> SubSeq(ProcessedLines, 1, 1)],
     [exists |-> TRUE, lines |-> ProcessedLines]}

\* One request at a time: request 1 arrives, whatever its form, the source file and
\* the disk are.
Init ==
    /\ NoCalls
    /\ source_ok \in BOOLEAN
    /\ disk \in {"ok", "readonly", "full"}
    /\ file \in LeftFiles
    /\ rpc = [r \in Requests |-> IF r = 1 THEN "received" ELSE "none"]
    /\ \E f \in Forms : form = [r \in Requests |-> IF r = 1 THEN f ELSE NoForm]
    /\ path = [r \in Requests |-> "unset"]
    /\ loaded = [r \in Requests |-> NoTable]
    /\ trace = [r \in Requests |-> <<>>]
    /\ response = [r \in Requests |-> NoResponse]

Spec == Init /\ [][Next]_vars

\* The forms of the concurrent requests: a listed code and a day count in range.
GoodForms ==
    {[method |-> "POST", stock_code |-> Zeros(CodeLen - 1) \o <<c>>, n_days |-> <<n>>] :
        c \in {"1", "2"}, n \in {"1", "2"}}

\* The threaded server: every request is in flight at once, each on a good form,
\* the source file readable and the disk writable.
InitConcurrent ==
    /\ NoCalls
    /\ source_ok = TRUE
    /\ disk = "ok"
    /\ file \in {NoFile, [exists |-> TRUE, lines |-> ProcessedLines]}
    /\ rpc = [r \in Requests |-> "received"]
    /\ form \in [Requests -> GoodForms]
    /\ path = [r \in Requests |-> "unset"]
    /\ loaded = [r \in Requests |-> NoTable]
    /\ trace = [r \in Requests |-> <<>>]
    /\ response = [r \in Requests |-> NoResponse]

SpecConcurrent == InitConcurrent /\ [][Next]_vars

(***************************************************************************)
(* Claims about index(), checked under Spec and SpecConcurrent.            *)
(***************************************************************************)

\* The functions of the pipeline, in the order index() calls them.
Pipeline ==
    <<"process_table", "load_data", "query_stock_rank", "plot_rank_trend",
      "generate_rank_text">>

IsPrefix(s, t) == Len(s) <= Len(t) /\ SubSeq(t, 1, Len(s)) = s

\* C6: a POST whose stock_code is not exactly 6 ASCII digits is answered with the
\* "must be six digits" error before any file I/O: process_table, load_data and
\* query_stock_rank are never called for it, whatever its n_days field holds.
C6_BadCodeReportedBeforeIO ==
    \A r \in Requests :
        (/\ form[r].method = "POST"
         /\ ~(Len(form[r].stock_code) = 6 /\ AllIn(form[r].stock_code, AsciiDigits)))
        => /\ trace[r] = <<>>
           /\ rpc[r] = "done" =>
                 (response[r].kind = "error_page" /\ response[r].error = "InvalidCode")

\* C7: when process_table meets a read or write failure it returns no path, and
\* then index() answers with the failure message without calling load_data,
\* query_stock_rank, plot_rank_trend or generate_rank_text; and whatever happens,
\* the functions called are a prefix of normalize, load, query, render.
C7_FailureAbortsPipeline ==
    \A r \in Requests :
        /\ (/\ trace[r] # <<>>
            /\ rpc[r] \notin {"process_table", "to_csv_open", "to_csv_write"}
            /\ (~source_ok \/ disk # "ok"))
           => path[r] = "None"
        /\ path[r] = "None" =>
              /\ trace[r] = <<"process_table">>
              /\ rpc[r] \in {"check_path", "done"}
              /\ rpc[r] = "done" => response[r].kind = "failure_text"
        /\ IsPrefix(trace[r], Pipeline)

\* A request answered with the failure message after the write failed on a full
\* disk: the derived file is there, cut short, and was never loaded.
C7_Witness ==
    /\ rpc[1] = "done"
    /\ source_ok
    /\ disk = "full"
    /\ file.exists
    /\ path[1] = "None"
    /\ trace[1] = <<"process_table">>
    /\ response[1].kind = "failure_text"

\* What index() answers to a good form when its request runs alone.
AloneResponse(f) ==
    [kind |-> "result_page", error |-> "None", max_days |-> NoMaxDays,
     ranks |-> query_stock_rank(ReadLines(ProcessedLines), f.stock_code,
                                IntValue(f.n_days)).ranks]

\* C10: under every interleaving of the concurrent requests, load_data reads a
\* complete processed copy of the source table, never an empty or cut file, and
\* each request is answered as it would be alone.
C10_RaceIsBenign ==
    \A r \in Requests :
        /\ Len(trace[r]) >= 2 => loaded[r] = ReadLines(ProcessedLines)
        /\ rpc[r] = "done" => response[r] = AloneResponse(form[r])

(***************************************************************************)
(* Calls of query_stock_rank on every table of the bounds.                 *)
(***************************************************************************)

MaxRows == 2

\* The labels of the date columns, oldest first.
DateColumns == <<<<"d", "1">>, <<"d", "2">>>>

CellValues == {NaN, 0, 1}

Ids == {1, 2}

CodeAlphabet == {"0", "1", "2", "-", " ", "a"}

QueryCodes == Texts(CodeAlphabet, 2)

\* The rows of a table of k date columns: k values, then the identifier.
TableRows(k) ==
    {r \in [1..(k + 1) -> CellValues \cup Ids] :
        r[k + 1] \in Ids /\ \A j \in 1..k : r[j] \in CellValues}

\* The tables of k date columns followed by the identifier column.
Tables ==
    UNION {{[columns |-> Append(SubSeq(DateColumns, 1, k), new_predict), rows |-> rs] :
               rs \in UNION {[1..m -> TableRows(k)] : m \in 0..MaxRows}}
           : k \in 0..Len(DateColumns)}

\* The day counts asked for: from below zero to past the last column.
DayCounts == (0 - (Len(DateColumns) + 1))..(Len(DateColumns) + 1)

InitQuery ==
    /\ pc = "query"
    /\ df \in Tables
    /\ stock_code = <<>> /\ n_days = 0 /\ outcome = NotCalled
    /\ header = <<>> /\ header_out = <<>> /\ value = <<>> /\ cell_out = <<>>
    /\ NoServer

Query ==
    /\ pc = "query"
    /\ \E code \in QueryCodes, n \in DayCounts :
          /\ stock_code' = code
          /\ n_days' = n
          /\ outcome' = query_stock_rank(df, code, n)
    /\ pc' = "queried"
    /\ UNCHANGED <<df, header, header_out, value, cell_out, server>>

NextQuery == Query

SpecQuery == InitQuery /\ [][NextQuery]_vars

(***************************************************************************)
(* Claims about query_stock_rank, checked under SpecQuery.                 *)
(***************************************************************************)

Queried == pc = "queried"

Succeeded == Queried /\ outcome.exc = "None" /\ ~outcome.result_is_none

\* The rows of df whose identifier (the rightmost column) is the integer stock_code reads as.
TargetRows ==
    IF ~IntParses(stock_code) THEN {}
    ELSE {i \in 1..Len(df.rows) :
            /\ df.rows[i][Len(df.columns)] # NaN
            /\ df.rows[i][Len(df.columns)] = IntValue(stock_code)}

\* The first row of the target code.
TargetRow == df.rows[CHOOSE i \in TargetRows : \A k \in TargetRows : i <= k]

\* The values of column j, top to bottom.
ValuesOf(j) == [i \in 1..Len(df.rows) |-> df.rows[i][j]]

\* C1: every call of query_stock_rank returns, and returns a pair in which exactly
\* one of result and error is populated: no exception, not both, not neither.
C1_ExactlyOnePopulated ==
    Queried =>
        /\ outcome.exc = "None"
        /\ (outcome.result_is_none <=> outcome.error # "None")

\* C2: a successful call for n_days returns exactly n_days entries, keyed by the
\* last n_days date columns (the rightmost column left out) in table order.
C2_LastNDaysColumns ==
    Succeeded =>
        /\ Len(outcome.ranks) = n_days
        /\ \A i \in 1..Len(outcome.ranks) :
              outcome.ranks[i].column = df.columns[(Len(df.columns) - 1 - n_days) + i]

\* C3: in a successful result the rank of a column is the position, in the
\* descending sort of the column, of the first entry equal to the target row's
\* value: one more than the number of rows holding a greater value.  So it lies in
\* 1..row count, is 1 when the target row holds the column's maximum, and a row
\* holding the same value gets the same rank when it is the one queried (the
\* query of its code finds it: it is the first row of its identifier).
C3_RankIsFirstPositionInDescendingSort ==
    Succeeded =>
        \A i \in 1..Len(outcome.ranks) :
            LET j == CHOOSE c \in 1..Len(df.columns) : df.columns[c] = outcome.ranks[i].column
                col == ValuesOf(j)
                t == TargetRow[j]
                rank == outcome.ranks[i].rank
                greater == {r \in 1..Len(col) : col[r] # NaN /\ col[r] > t}
            IN  /\ t # NaN
                /\ rank \in 1..Len(df.rows)
                /\ rank = Cardinality(greater) + 1
                /\ SortDesc(col)[rank] = t
                /\ \A q \in 1..(rank - 1) : SortDesc(col)[q] # t
                /\ (greater = {}) => rank = 1
                /\ \A r \in 1..Len(col) :
                      LET other == query_stock_rank(
                                       df, <<CHOOSE c \in AsciiDigits :
                                               DigitValue(c) = df.rows[r][Len(df.columns)]>>,
                                       n_days)
                          first == \A q \in 1..(r - 1) :
                                      df.rows[q][Len(df.columns)] # df.rows[r][Len(df.columns)]
                      IN  (col[r] = t /\ first /\ other.exc = "None" /\ ~other.result_is_none)
                              => other.ranks[i].rank = rank

\* A successful query over two columns of a table of two rows or more, the target
\* ranked first in one column and second in the other.
C3_Witness ==
    /\ Succeeded
    /\ Len(df.rows) >= 2
    /\ n_days = 2
    /\ Len(outcome.ranks) = 2
    /\ outcome.ranks[1].rank = 1
    /\ outcome.ranks[2].rank = 2

\* C4: on a table holding a row for the target code, n_days above column count - 1
\* gets no result and the "exceeds maximum" error carrying max_days = column
\* count - 1, and n_days equal to max_days does not get that error.
C4_ExceedsMaximum ==
    (Queried /\ IntParses(stock_code) /\ TargetRows # {}) =>
        /\ n_days > Len(df.columns) - 1 =>
              /\ outcome.exc = "None"
              /\ outcome.result_is_none
              /\ outcome.error = "ExceedsMax"
              /\ outcome.max_days = Len(df.columns) - 1
        /\ n_days = Len(df.columns) - 1 => outcome.error # "ExceedsMax"

\* A query for three days on a table of two date columns, refused with max_days 2.
C4_Witness ==
    /\ Queried
    /\ TargetRows # {}
    /\ n_days = 3
    /\ outcome.error = "ExceedsMax"
    /\ outcome.max_days = 2

\* C5 as stated: every target_code that is not made of digits only gets the
\* "invalid code" error and no result, without an exception.
C5_NonDigitCodeIsInvalid ==
    (Queried /\ ~AllIn(stock_code, AsciiDigits)) =>
        /\ outcome.exc = "None"
        /\ outcome.result_is_none
        /\ outcome.error = "InvalidCode"

\* C5 as amended: every target_code that int() does not read as an integer gets
\* the "invalid code" error and no result, without an exception, whatever the
\* table and n_days are.
C5_UnparsableCodeIsInvalid ==
    (Queried /\ ~IntParses(stock_code)) =>
        /\ outcome.exc = "None"
        /\ outcome.result_is_none
        /\ outcome.error = "InvalidCode"

\* A code int() rejects, refused on a table that holds rows and for a day count
\* that would exceed the maximum.
C5_Witness ==
    /\ Queried
    /\ ~IntParses(stock_code)
    /\ stock_code # <<>>
    /\ Len(df.rows) > 0
    /\ n_days > Len(df.columns) - 1
    /\ outcome.error = "InvalidCode"

(***************************************************************************)
(* Calls of process_header on every header of the bounds.  A label is up   *)
(* to three parts, each the time suffix, one of its halves or a blank.     *)
(***************************************************************************)

MaxHeader == 2

RECURSIVE Concat(_)
Concat(parts) == IF parts = <<>> THEN <<>> ELSE parts[1] \o Concat(Tail(parts))

LabelParts == {TimeSuffix, <<"0", "0", ":", "0", "0">>, <<":", "0", "0">>, <<" ">>}

Labels == {Concat(parts) : parts \in Texts(LabelParts, 3)}

InitHeader ==
    /\ pc = "header"
    /\ header \in UNION {[1..k -> Labels] : k \in 0..MaxHeader}
    /\ header_out = <<>>
    /\ df = NoTable /\ stock_code = <<>> /\ n_days = 0 /\ outcome = NotCalled
    /\ value = <<>> /\ cell_out = <<>>
    /\ NoServer

Header ==
    /\ pc = "header"
    /\ header_out' = process_header(header)
    /\ pc' = "header_done"
    /\ UNCHANGED <<df, stock_code, n_days, outcome, header, value, cell_out, server>>

NextHeader == Header

SpecHeader == InitHeader /\ [][NextHeader]_vars

\* Whether text s holds sub as a substring.
Contains(s, sub) ==
    \E i \in 1..(Len(s) - Len(sub) + 1) : SubSeq(s, i, i + Len(sub) - 1) = sub

Trimmed(s) == s = <<>> \/ (s[1] \notin Whitespace /\ s[Len(s)] \notin Whitespace)

\* C8 as stated: process_header is idempotent on every sequence of labels, so no
\* output label contains "00:00:00" or surrounding whitespace, and the result has
\* the length and order of the input.
C8_HeaderIdempotent ==
    pc = "header_done" =>
        /\ process_header(header_out) = header_out
        /\ Len(header_out) = Len(header)
        /\ \A i \in 1..Len(header_out) :
              ~Contains(header_out[i], TimeSuffix) /\ Trimmed(header_out[i])

\* C8 as amended: the result has the length and order of the input, a label free
\* of the suffix comes back trimmed and otherwise unchanged, a label holding the
\* suffix comes back shorter by a suffix at least, no output label has surrounding
\* whitespace, and process_header returns its own output unchanged whenever no
\* output label contains "00:00:00".
C8_HeaderIdempotentOnSuffixFreeOutput ==
    pc = "header_done" =>
        /\ Len(header_out) = Len(header)
        /\ \A i \in 1..Len(header_out) :
              /\ Trimmed(header_out[i])
              /\ ~Contains(header[i], TimeSuffix) => header_out[i] = Strip(header[i])
              /\ Contains(header[i], TimeSuffix) =>
                    Len(header_out[i]) <= Len(header[i]) - Len(TimeSuffix)
        /\ (\A i \in 1..Len(header_out) : ~Contains(header_out[i], TimeSuffix))
              => process_header(header_out) = header_out

\* A header of two labels, the first holding the suffix between blanks and coming
\* back without either, the second free of the suffix.
C8_Witness ==
    /\ pc = "header_done"
    /\ Len(header) = 2
    /\ header[1] = <<" ">> \o TimeSuffix \o <<" ">>
    /\ header_out[1] = <<>>
    /\ header[2] = <<"0", "0", ":", "0", "0">>
    /\ header_out[2] = header[2]

(***************************************************************************)
(* Calls of process_cell on str(value): up to MaxDigits digits between two *)
(* affixes.                                                                *)
(***************************************************************************)

MaxDigits == 7

Affixes ==
    {<<>>, CsvSuffix, ShSuffix, SzSuffix, <<".", "S">>, <<"H">>, <<"a">>, <<"LF">>,
     <<"FW1">>, <<".", "S", ".", "c", "s", "v", "H">>, <<"2", ".", "S", "Z">>}

CellTexts ==
    {a \o d \o b : a \in Affixes, d \in Texts({"0", "1"}, MaxDigits), b \in Affixes}

InitCell ==
    /\ pc = "cell"
    /\ value \in CellTexts
    /\ cell_out = <<>>
    /\ df = NoTable /\ stock_code = <<>> /\ n_days = 0 /\ outcome = NotCalled
    /\ header = <<>> /\ header_out = <<>>
    /\ NoServer

Cell ==
    /\ pc = "cell"
    /\ cell_out' = process_cell(value)
    /\ pc' = "cell_done"
    /\ UNCHANGED <<df, stock_code, n_days, outcome, header, header_out, value, server>>

NextCell == Cell

SpecCell == InitCell /\ [][NextCell]_vars

\* C9: when the text left of a value once ".csv", ".SH" and ".SZ" are removed is
\* 1 to 6 digits, process_cell returns exactly 6 characters, all digits: that text
\* after zeros; and process_cell returns that result unchanged.
C9_CellPadsToSixDigits ==
    pc = "cell_done" =>
        LET t == StripSuffixes(value)
        IN  (Len(t) \in 1..6 /\ AllIn(t, DecimalDigits)) =>
                /\ Len(cell_out) = 6
                /\ AllIn(cell_out, DecimalDigits)
                /\ SubSeq(cell_out, 6 - Len(t) + 1, 6) = t
                /\ \A i \in 1..(6 - Len(t)) : cell_out[i] = "0"
                /\ process_cell(cell_out) = cell_out

\* "1.SH" comes back as "000001".
C9_Witness ==
    /\ pc = "cell_done"
    /\ value = <<"1", ".", "S", "H">>
    /\ cell_out = <<"0", "0", "0", "0", "0", "1">>

====
